---------------------------- MODULE Spec2Model ----------------------------
(***************************************************************************)
(* State-machine model of src/chat_detection_extension/                    *)
(* ai_analytics_engine.py: the orchestrator lifecycle                      *)
(* (AIAnalyticsOrchestrator.initialize_system and                          *)
(* run_comprehensive_analysis) and the stream loop                         *)
(* (EnterpriseDataProcessor.process_realtime_stream), together with       *)
(* direct calls of _apply_data_recovery, train_model, predict_batch,       *)
(* detect_anomalies and _generate_ai_recommendations on bounded inputs.    *)
(*                                                                         *)
(* Random draws of the source (numpy.random) are nondeterministic choices. *)
(* An awaited call either returns or raises; the exceptions modelled are   *)
(* subclasses of Exception, the class the source's handlers name.          *)
(***************************************************************************)
EXTENDS Integers, Sequences, FiniteSets, TLC

(***************************************************************************)
(* Bounds of the model.                                                    *)
(***************************************************************************)
\* number of _receive_data_batch calls that may yield a batch or raise
MaxReceives == 3

(***************************************************************************)
(* Program constants.                                                      *)
(***************************************************************************)
\* np.random.randint(100, 1000): batch rows are drawn from 100..999
BatchRowsLow == 100
BatchRowsHigh == 1000
\* np.random.randint(10000, 50000): dataset rows are drawn from 10000..49999
DatasetRowsLow == 10000
DatasetRowsHigh == 50000
\* for i in range(min(len(data), 10))
AnomalyScanLimit == 10
\* DataPipeline.batch_size: int = 10000
DefaultBatchSize == 10000
\* ModelConfiguration.anomaly_detection_threshold: float = 2.5, in tenths
DefaultThreshold == 25
\* thresholds a ModelConfiguration is constructed with: the default and 4.0
ThresholdSamples == {DefaultThreshold, 40}
\* np.random.uniform(2.5, 5.0): anomaly scores lie in [2.5, 5.0), in tenths
ScoreLow == 25
ScoreHigh == 50

\* representative draws of the two randint ranges (both ends of each range)
BatchRowSamples == {BatchRowsLow, BatchRowsLow + 1, BatchRowsHigh - 1}
DatasetRowSamples == {DatasetRowsLow, DatasetRowsHigh - 1}

Min(a, b) == IF a <= b THEN a ELSE b

RECURSIVE SumSeq(_)
SumSeq(s) == IF s = <<>> THEN 0 ELSE Head(s) + SumSeq(Tail(s))

(***************************************************************************)
(* Exceptions.  `except Exception` catches exactly the subclasses of       *)
(* Exception.                                                              *)
(***************************************************************************)
ExceptionSubclasses == {"AttributeError", "RuntimeError", "MemoryError", "TypeError"}

\* a handler that names one exception class only
Caught_OnlyTypeError(e) == e = "TypeError"

CaughtByExceptException(e) == e \in ExceptionSubclasses

(***************************************************************************)
(* Orchestrator.                                                           *)
(***************************************************************************)
\* the three literals the class ever assigns to system_status
StatusValues == {"INITIALIZING", "OPERATIONAL", "FAILED"}

\* the awaited calls of initialize_system, in source order
InitSteps == << "initialize_quantum_circuits",
                "_perform_system_health_check",
                "_load_enterprise_configurations" >>

\* What each initialization step does when awaited.
\* initialize_quantum_circuits evaluates np.random.complex128(...): the
\* numpy.random module has no attribute complex128, so the call raises
\* AttributeError every time.  The other two steps only sleep and log.
InitStepOutcome(step) ==
    IF step = "initialize_quantum_circuits" THEN "AttributeError" ELSE "return"

NoReport == [kind |-> "none"]

VARIABLES
    system_status,   \* AIAnalyticsOrchestrator.system_status
    opc,             \* position of the orchestrator call in progress
    initIdx,         \* index into InitSteps of the next step to await
    lastOp,          \* the most recent orchestrator method called
    lastReturn,      \* its outcome: "pending", a return value or the exception raised
    statusAtCall,    \* system_status when that call started
    stepsRun,        \* <<step, outcome>> of each step awaited by the latest initialize_system
    engineLog,       \* engine operations awaited by the latest run_comprehensive_analysis
    sample_data,     \* len(sample_data) of the run in progress (0: none)
    predictions,     \* len(predictions) of the run in progress (0: none)
    anomalies,       \* len(anomalies) of the run in progress (0: none)
    report,          \* the analysis_report returned by the latest run, or NoReport
    spc,             \* position of process_realtime_stream
    batch_counter,   \* local batch_counter of process_realtime_stream
    processed_samples, \* local processed_samples of process_realtime_stream
    batch_data,      \* len of the batch in flight (0: none)
    receives,        \* number of _receive_data_batch calls that yielded a batch or raised
    completed,       \* record counts of the batches that completed _process_batch_enterprise
    pendingExc,      \* exception in flight inside the try block ("none": none)
    raisedCount,     \* exceptions raised inside the try block so far
    handlerCalls,    \* calls of _handle_processing_error so far
    sentinelSeen,    \* _receive_data_batch has returned None
    batch_size,      \* DataPipeline.batch_size of the processor's config
    encrypted_batch, \* len(encrypted_batch) of the batch in flight (0: none)
    processed_batch, \* len(processed_batch) of the batch in flight (0: none)
    batchTrace,      \* <<step, rows in, rows out>> of each step taken on the batch in flight
    model_cache,     \* QuantumEnhancedAnalytics.model_cache (the set of its keys)
    trainCompleted,  \* train_model has returned on this engine
    anomaly_detection_threshold, \* ModelConfiguration.anomaly_detection_threshold, in tenths
    call             \* the latest method called directly, its input and its result

orchVars == << system_status, opc, initIdx, lastOp, lastReturn, statusAtCall,
               stepsRun, engineLog, sample_data, predictions, anomalies, report >>
streamVars == << spc, batch_counter, processed_samples, batch_data, receives,
                 completed, pendingExc, raisedCount, handlerCalls, sentinelSeen,
                 batch_size, encrypted_batch, processed_batch, batchTrace >>
engineVars == << model_cache, trainCompleted, anomaly_detection_threshold >>
vars == << system_status, opc, initIdx, lastOp, lastReturn, statusAtCall,
           stepsRun, engineLog, sample_data, predictions, anomalies, report,
           spc, batch_counter, processed_samples, batch_data, receives,
           completed, pendingExc, raisedCount, handlerCalls, sentinelSeen,
           batch_size, encrypted_batch, processed_batch, batchTrace,
           model_cache, trainCompleted, anomaly_detection_threshold, call >>

(***************************************************************************)
(* Initial states.                                                         *)
(***************************************************************************)
\* no method has been called directly yet
NoCall == [method |-> "none"]

\* QuantumEnhancedAnalytics.__init__(config): self.model_cache = {}
EngineInit(config_threshold) ==
    /\ model_cache = {}
    /\ trainCompleted = FALSE
    /\ anomaly_detection_threshold = config_threshold

\* EnterpriseDataProcessor.__init__: nothing is streaming yet
StreamInit ==
    /\ spc = "idle"
    /\ batch_counter = 0
    /\ processed_samples = 0
    /\ batch_data = 0
    /\ receives = 0
    /\ completed = <<>>
    /\ pendingExc = "none"
    /\ raisedCount = 0
    /\ handlerCalls = 0
    /\ sentinelSeen = FALSE
    /\ encrypted_batch = 0
    /\ processed_batch = 0
    /\ batchTrace = <<>>

OrchIdle ==
    /\ opc = "idle"
    /\ initIdx = 1
    /\ lastOp = "none"
    /\ lastReturn = "none"
    /\ stepsRun = <<>>
    /\ engineLog = <<>>
    /\ sample_data = 0
    /\ predictions = 0
    /\ anomalies = 0
    /\ report = NoReport

\* AIAnalyticsOrchestrator.__init__: ModelConfiguration() and DataPipeline()
\* with their defaults
Init ==
    /\ system_status = "INITIALIZING"
    /\ statusAtCall = "INITIALIZING"
    /\ OrchIdle
    /\ StreamInit
    /\ batch_size = DefaultBatchSize
    /\ EngineInit(DefaultThreshold)
    /\ call = NoCall

\* An orchestrator whose system_status holds any of the values the class assigns
InitAnyStatus ==
    /\ system_status \in StatusValues
    /\ statusAtCall = system_status
    /\ OrchIdle
    /\ StreamInit
    /\ batch_size = DefaultBatchSize
    /\ EngineInit(DefaultThreshold)
    /\ call = NoCall

(***************************************************************************)
(* AIAnalyticsOrchestrator.initialize_system                               *)
(***************************************************************************)
\* initialize_system as it would be if it announced itself in system_status
InitializeSystem_SetsInitializing ==
    /\ opc = "idle"
    /\ opc' = "init_step"
    /\ initIdx' = 1
    /\ lastOp' = "initialize_system"
    /\ lastReturn' = "pending"
    /\ statusAtCall' = system_status
    /\ stepsRun' = <<>>
    /\ system_status' = "INITIALIZING"
    /\ UNCHANGED << engineLog, sample_data, predictions, anomalies, report >>
    /\ UNCHANGED << streamVars, engineVars, call >>

\* the call starts: nothing is assigned before the try block
InitializeSystem ==
    /\ opc = "idle"
    /\ opc' = "init_step"
    /\ initIdx' = 1
    /\ lastOp' = "initialize_system"
    /\ lastReturn' = "pending"
    /\ statusAtCall' = system_status
    /\ stepsRun' = <<>>
    /\ UNCHANGED << system_status, engineLog, sample_data, predictions, anomalies,
                    report >>
    /\ UNCHANGED << streamVars, engineVars, call >>

\* one awaited step of the try block; after the last one the status is set
\* to OPERATIONAL and True is returned
InitStep ==
    /\ opc = "init_step"
    /\ LET step == InitSteps[initIdx]
           out == InitStepOutcome(step)
       IN  /\ stepsRun' = Append(stepsRun, << step, out >>)
           /\ IF out # "return"
              THEN /\ opc' = "init_except"
                   /\ lastReturn' = out
                   /\ UNCHANGED << system_status, initIdx >>
              ELSE IF initIdx = Len(InitSteps)
              THEN /\ system_status' = "OPERATIONAL"
                   /\ lastReturn' = "True"
                   /\ opc' = "idle"
                   /\ UNCHANGED initIdx
              ELSE /\ initIdx' = initIdx + 1
                   /\ UNCHANGED << system_status, lastReturn, opc >>
    /\ UNCHANGED << lastOp, statusAtCall, engineLog, sample_data, predictions,
                    anomalies, report >>
    /\ UNCHANGED << streamVars, engineVars, call >>

\* the except clause as it would be if it forgot the status assignment
InitExcept_StatusNotSet ==
    /\ opc = "init_except"
    /\ opc' = "idle"
    /\ lastReturn' = "False"
    /\ UNCHANGED << system_status, initIdx, lastOp, statusAtCall, stepsRun,
                    engineLog, sample_data, predictions, anomalies, report >>
    /\ UNCHANGED << streamVars, engineVars, call >>

\* except Exception as e: the status is set to FAILED and False is returned;
\* anything that is not an Exception leaves the call as it was raised
InitExcept ==
    /\ opc = "init_except"
    /\ opc' = "idle"
    /\ IF CaughtByExceptException(lastReturn)
       THEN /\ system_status' = "FAILED"
            /\ lastReturn' = "False"
       ELSE UNCHANGED << system_status, lastReturn >>
    /\ UNCHANGED << initIdx, lastOp, statusAtCall, stepsRun, engineLog,
                    sample_data, predictions, anomalies, report >>
    /\ UNCHANGED << streamVars, engineVars, call >>

(***************************************************************************)
(* AIAnalyticsOrchestrator.run_comprehensive_analysis                      *)
(***************************************************************************)
\* a guard that turns away a FAILED system only
AnalysisAdmitted_OnlyFailedRejected(status) == status # "FAILED"

\* the guard on system_status
AnalysisAdmitted(status) == status = "OPERATIONAL"

\* the call starts: RuntimeError unless the guard admits it
RunComprehensiveAnalysis ==
    /\ opc = "idle"
    /\ lastOp' = "run_comprehensive_analysis"
    /\ statusAtCall' = system_status
    /\ engineLog' = <<>>
    /\ report' = NoReport
    /\ sample_data' = 0
    /\ predictions' = 0
    /\ anomalies' = 0
    /\ IF AnalysisAdmitted(system_status)
       THEN /\ opc' = "generate"
            /\ lastReturn' = "pending"
       ELSE /\ opc' = "idle"
            /\ lastReturn' = "RuntimeError"
    /\ UNCHANGED << system_status, initIdx, stepsRun >>
    /\ UNCHANGED << streamVars, engineVars, call >>

\* a body that swallows the exception and returns what it has so far
AnalysisRaises_PartialReport(e) ==
    /\ opc' = "idle"
    /\ lastReturn' = "report"
    /\ report' = [kind |-> "partial_report"]

\* an exception raised inside the body is not handled: it leaves the call
AnalysisRaises(e) ==
    /\ opc' = "idle"
    /\ lastReturn' = e
    /\ report' = NoReport

\* sample_data = await self._generate_enterprise_dataset()
GenerateEnterpriseDataset ==
    /\ opc = "generate"
    /\ \/ \E n \in DatasetRowSamples :
            /\ sample_data' = n
            /\ opc' = "train"
            /\ UNCHANGED << lastReturn, report >>
       \/ /\ AnalysisRaises("MemoryError")
          /\ UNCHANGED sample_data
    /\ UNCHANGED << system_status, initIdx, lastOp, statusAtCall, stepsRun,
                    engineLog, predictions, anomalies >>
    /\ UNCHANGED << streamVars, engineVars, call >>

\* the engine operation awaited at each position of the body, and the next position
EngineOpAt(pc) ==
    CASE pc = "train" -> "train_model"
      [] pc = "predict" -> "predict_batch"
      [] pc = "detect" -> "detect_anomalies"

\* a body that goes from training straight to anomaly detection
AfterTrain_SkipsPredict == "detect"

AfterTrain == "predict"
AfterPredict == "detect"
AfterDetect == "report"

\* features = sample_data.select_dtypes(include=[np.number]).values:
\* one row of features per row of sample_data
FeatureRows(n) == n

\* a prediction step that answers for the scanned head of the input only
PredictionRows_ScannedOnly(n) == Min(n, AnomalyScanLimit)

\* predictions = np.random.random(len(features)): one prediction per input row
PredictionRows(n) == n

\* confidence_intervals = np.random.random((len(features), 2))
ConfidenceRows(n) == n

\* a scan that visits every row of the data
ScannedRows_All(n) == n

\* for i in range(min(len(data), 10)): the number of rows the loop visits
ScannedRows(n) == Min(n, AnomalyScanLimit)

\* detect_anomalies appends at most one record per scanned row
DetectedCounts(n) == 0 .. ScannedRows(n)

\* what the engine operation at position pc leaves behind when it returns
EngineReturns(pc) ==
    /\ predictions' = IF pc = "predict"
                         THEN PredictionRows(FeatureRows(sample_data))
                         ELSE predictions
    /\ \E k \in (IF pc = "detect" THEN DetectedCounts(sample_data) ELSE {anomalies}) :
          anomalies' = k
    /\ trainCompleted' = (trainCompleted \/ pc = "train")

\* an awaited engine operation returns or raises
EngineCall(pc, next) ==
    /\ opc = pc
    /\ \/ /\ engineLog' = Append(engineLog, << EngineOpAt(pc), "returned" >>)
          /\ opc' = next
          /\ EngineReturns(pc)
          /\ UNCHANGED << lastReturn, report >>
       \/ /\ engineLog' = Append(engineLog, << EngineOpAt(pc), "raised" >>)
          /\ AnalysisRaises("MemoryError")
          /\ UNCHANGED << predictions, anomalies, trainCompleted >>
    /\ UNCHANGED << system_status, initIdx, lastOp, statusAtCall, stepsRun,
                    sample_data >>
    /\ UNCHANGED << streamVars, model_cache, anomaly_detection_threshold, call >>

\* training_results = await self.analytics_engine.train_model(sample_data, ...)
TrainModel == EngineCall("train", AfterTrain)

\* predictions, confidence = await self.analytics_engine.predict_batch(features)
PredictBatch == EngineCall("predict", AfterPredict)

\* anomalies = await self.analytics_engine.detect_anomalies(sample_data)
DetectAnomalies == EngineCall("detect", AfterDetect)

\* the anomaly count above which the urgent recommendation is appended
UrgentThreshold == 5

BaselineRecommendations ==
    << "Implement enhanced monitoring for high-risk transaction patterns",
       "Deploy additional quantum circuits for improved processing capacity",
       "Optimize neural architecture for reduced latency in real-time predictions",
       "Strengthen anomaly detection thresholds based on current threat landscape" >>

UrgentRecommendation ==
    "URGENT: Investigate potential security breach - anomaly count exceeds threshold"

\* an urgent recommendation that is already appended at the threshold itself
IsUrgent_AtThreshold(count) == count >= UrgentThreshold

\* if len(anomalies) > 5
IsUrgent(count) == count > UrgentThreshold

\* _generate_ai_recommendations(anomalies), anomalies given by its length
GenerateAIRecommendations(count) ==
    IF IsUrgent(count)
    THEN Append(BaselineRecommendations, UrgentRecommendation)
    ELSE BaselineRecommendations

\* analysis_report = {...}; return analysis_report
AssembleReport ==
    /\ opc = "report"
    /\ report' = [ kind |-> "analysis_report",
                   samples_processed |-> sample_data,
                   predictions_generated |-> predictions,
                   anomalies_detected |-> anomalies,
                   recommendations |-> GenerateAIRecommendations(anomalies) ]
    /\ lastReturn' = "report"
    /\ opc' = "idle"
    /\ UNCHANGED << system_status, initIdx, lastOp, statusAtCall, stepsRun,
                    engineLog, sample_data, predictions, anomalies >>
    /\ UNCHANGED << streamVars, engineVars, call >>

(***************************************************************************)
(* EnterpriseDataProcessor.process_realtime_stream                         *)
(***************************************************************************)
\* batch_counter = 0; processed_samples = 0; while True:
ProcessRealtimeStream ==
    /\ spc = "idle"
    /\ spc' = "receive"
    /\ batch_counter' = 0
    /\ processed_samples' = 0
    /\ UNCHANGED << batch_data, receives, completed, pendingExc, raisedCount,
                    handlerCalls, sentinelSeen, batch_size, encrypted_batch,
                    processed_batch, batchTrace >>
    /\ UNCHANGED << orchVars, engineVars, call >>

\* `continue` in place of `break`
AfterSentinel_Continue == "receive"

\* what `if batch_data is None: break` leads to: the loop, and the call, end
AfterSentinel == "closed"

\* an exception raised inside the try block reaches the except clause
RaiseInTry(e) ==
    /\ spc' = "except"
    /\ pendingExc' = e
    /\ raisedCount' = raisedCount + 1

\* batch_data = await self._receive_data_batch(); if batch_data is None: break
\* The sentinel is drawn with probability 0.005, a batch of 100..999 rows
\* otherwise; building the batch can fail for lack of memory.
ReceiveDataBatch ==
    /\ spc = "receive"
    /\ \/ /\ spc' = AfterSentinel
          /\ sentinelSeen' = TRUE
          /\ batch_data' = 0
          /\ UNCHANGED << receives, pendingExc, raisedCount >>
       \/ /\ receives < MaxReceives
          /\ \E n \in BatchRowSamples : batch_data' = n
          /\ spc' = "validate"
          /\ receives' = receives + 1
          /\ UNCHANGED << pendingExc, raisedCount, sentinelSeen >>
       \/ /\ receives < MaxReceives
          /\ RaiseInTry("MemoryError")
          /\ batch_data' = 0
          /\ receives' = receives + 1
          /\ UNCHANGED sentinelSeen
    /\ UNCHANGED << batch_counter, processed_samples, completed, handlerCalls,
                    batch_size, encrypted_batch, processed_batch, batchTrace >>
    /\ UNCHANGED << orchVars, engineVars, call >>

\* one entry of batchTrace: the step, the rows it was given, the rows it
\* returned and its result ("True"/"False" for validation, else "returned" or
\* "raised")
StepTaken(step, rows_in, rows_out, result) ==
    [ step |-> step, rows_in |-> rows_in, rows_out |-> rows_out, result |-> result ]

\* a recovery branch taken when validation passed
RecoveryNeeded_WhenPassed(validation_passed) == validation_passed

\* if not validation_passed: batch = await self._apply_data_recovery(batch)
RecoveryNeeded(validation_passed) == ~validation_passed

\* validation_passed = await self._validate_data_integrity(batch)
\* (np.random.random() > 0.05); if not validation_passed: recovery
ValidateDataIntegrity ==
    /\ spc = "validate"
    /\ \E validation_passed \in BOOLEAN :
          /\ spc' = IF RecoveryNeeded(validation_passed) THEN "recover" ELSE "encrypt"
          /\ batchTrace' = Append(batchTrace,
                 StepTaken("_validate_data_integrity", batch_data, batch_data,
                           IF validation_passed THEN "True" ELSE "False"))
    /\ UNCHANGED << batch_counter, processed_samples, batch_data, receives,
                    completed, pendingExc, raisedCount, handlerCalls, sentinelSeen,
                    batch_size, encrypted_batch, processed_batch >>
    /\ UNCHANGED << orchVars, engineVars, call >>

\* batch = await self._apply_data_recovery(batch): data.fillna(data.mean()).
\* The row count is kept.  DataFrame.mean() over the batch's text column is
\* dropped silently by pandas 1.x and raises TypeError from pandas 2.0 on.
ApplyDataRecovery ==
    /\ spc = "recover"
    /\ \/ /\ spc' = "encrypt"
          /\ batchTrace' = Append(batchTrace,
                 StepTaken("_apply_data_recovery", batch_data, batch_data, "returned"))
          /\ UNCHANGED << pendingExc, raisedCount >>
       \/ /\ RaiseInTry("TypeError")
          /\ batchTrace' = Append(batchTrace,
                 StepTaken("_apply_data_recovery", batch_data, 0, "raised"))
    /\ UNCHANGED << batch_counter, processed_samples, batch_data, receives,
                    completed, handlerCalls, sentinelSeen, batch_size,
                    encrypted_batch, processed_batch >>
    /\ UNCHANGED << orchVars, engineVars, call >>

\* encrypted_batch = await self._encrypt_sensitive_data(batch): returns data
EncryptSensitiveData ==
    /\ spc = "encrypt"
    /\ spc' = "rules"
    /\ encrypted_batch' = batch_data
    /\ batchTrace' = Append(batchTrace,
           StepTaken("_encrypt_sensitive_data", batch_data, encrypted_batch', "returned"))
    /\ UNCHANGED << batch_counter, processed_samples, batch_data, receives,
                    completed, pendingExc, raisedCount, handlerCalls, sentinelSeen,
                    batch_size, processed_batch >>
    /\ UNCHANGED << orchVars, engineVars, call >>

\* processed_batch = await self._apply_business_rules(encrypted_batch): returns
\* data; _process_batch_enterprise returns processed_batch
ApplyBusinessRules ==
    /\ spc = "rules"
    /\ spc' = "count"
    /\ processed_batch' = encrypted_batch
    /\ batchTrace' = Append(batchTrace,
           StepTaken("_apply_business_rules", encrypted_batch, processed_batch', "returned"))
    /\ completed' = Append(completed, batch_data)
    /\ UNCHANGED << batch_counter, processed_samples, batch_data, receives,
                    pendingExc, raisedCount, handlerCalls, sentinelSeen,
                    batch_size, encrypted_batch >>
    /\ UNCHANGED << orchVars, engineVars, call >>

\* a sample counter that counts batches
CountedSamples_CountsBatches(total, rows) == total + 1

\* the counter updates after a batch was processed
CountedBatches(n) == n + 1
CountedSamples(total, rows) == total + rows

\* batch_counter += 1; processed_samples += len(processed_batch); sleep; loop
CountBatch ==
    /\ spc = "count"
    /\ batch_counter' = CountedBatches(batch_counter)
    /\ processed_samples' = CountedSamples(processed_samples, processed_batch)
    /\ batch_data' = 0
    /\ encrypted_batch' = 0
    /\ processed_batch' = 0
    /\ batchTrace' = <<>>
    /\ spc' = "receive"
    /\ UNCHANGED << receives, completed, pendingExc, raisedCount, handlerCalls,
                    sentinelSeen, batch_size >>
    /\ UNCHANGED << orchVars, engineVars, call >>

\* a loop that gives up once an error has been handled
AfterHandler_GivesUp == "closed"

\* where the loop goes once _handle_processing_error has returned
AfterHandler == "receive"

\* except Exception as e: logger.error(...); await self._handle_processing_error(e)
\* An exception the clause does not catch leaves process_realtime_stream.
HandleProcessingError ==
    /\ spc = "except"
    /\ IF CaughtByExceptException(pendingExc)
       THEN /\ handlerCalls' = handlerCalls + 1
            /\ spc' = AfterHandler
            /\ pendingExc' = "none"
       ELSE /\ spc' = "propagated"
            /\ UNCHANGED << handlerCalls, pendingExc >>
    /\ batch_data' = 0
    /\ encrypted_batch' = 0
    /\ processed_batch' = 0
    /\ batchTrace' = <<>>
    /\ UNCHANGED << batch_counter, processed_samples, receives, completed,
                    raisedCount, sentinelSeen, batch_size >>
    /\ UNCHANGED << orchVars, engineVars, call >>

(***************************************************************************)
(* EnterpriseDataProcessor._apply_data_recovery on the cells of a batch.   *)
(* A cell of a numeric column is missing (NaN) or holds the rational       *)
(* num/den in lowest terms.  A frame is its numeric columns, each a        *)
(* sequence of cells in row order, and whether it also has a text column   *)
(* (categorical_feature in the batches of _receive_data_batch).            *)
(***************************************************************************)
MaxRows == 3
MaxCols == 2

NaN == [nan |-> TRUE, num |-> 0, den |-> 1]
Value(n, d) == [nan |-> FALSE, num |-> n, den |-> d]

CellSamples == {NaN, Value(1, 1), Value(2, 1)}

RECURSIVE GCD(_, _)
GCD(a, b) == IF b = 0 THEN a ELSE GCD(b, a % b)

\* n/d in lowest terms (n >= 0, d > 0)
Reduced(n, d) == Value(n \div GCD(n, d), d \div GCD(n, d))

ValidIndexes(col) == {i \in 1 .. Len(col) : ~col[i].nan}

\* the sum of the valid cells of col at the indexes in idx, as a rational
RECURSIVE SumCells(_, _)
SumCells(col, idx) ==
    IF idx = {} THEN Value(0, 1)
    ELSE LET i == CHOOSE j \in idx : TRUE
             rest == SumCells(col, idx \ {i})
         IN  Reduced(col[i].num * rest.den + rest.num * col[i].den,
                     col[i].den * rest.den)

\* Series.mean() with skipna=True: the mean of the valid cells, NaN if none
ColumnMean(col) ==
    LET idx == ValidIndexes(col)
        total == SumCells(col, idx)
    IN  IF idx = {} THEN NaN
        ELSE Reduced(total.num, total.den * Cardinality(idx))

\* Series.fillna(value): missing cells take value; a NaN value fills nothing
FillColumn(col, value) ==
    [i \in 1 .. Len(col) |-> IF col[i].nan THEN value ELSE col[i]]

\* data.fillna(data.mean()) on one numeric column
RecoveredColumn(col) == FillColumn(col, ColumnMean(col))

PandasMajors == {1, 2}

Returned(frame) == [raised |-> "none", frame |-> frame]
Raised(e, frame) == [raised |-> e, frame |-> frame]

\* return data.fillna(data.mean()).  DataFrame.mean() leaves a text column
\* out under pandas 1.x (numeric_only=None) and raises TypeError over it
\* from pandas 2.0 on; the text column itself has nothing to fill.
ApplyDataRecoveryFn(frame, pandas_major) ==
    IF frame.text /\ pandas_major >= 2
    THEN Raised("TypeError", frame)
    ELSE Returned([ cols |-> [c \in 1 .. Len(frame.cols) |->
                                  RecoveredColumn(frame.cols[c])],
                    text |-> frame.text ])

\* the sequences of length n over S
SeqsOfLen(S, n) == [1 .. n -> S]

\* frames of up to MaxRows rows and MaxCols numeric columns
FrameSamples ==
    UNION { { [cols |-> cs, text |-> t] :
                cs \in SeqsOfLen(SeqsOfLen(CellSamples, r), c), t \in BOOLEAN } :
            r \in 0 .. MaxRows, c \in 1 .. MaxCols }

\* no direct call is in progress: the next one can be made
CallerReady == call.method = "none"

\* the caller has taken the result of its call
CallReturns ==
    /\ call.method # "none"
    /\ call' = NoCall
    /\ UNCHANGED << orchVars, streamVars, engineVars >>

\* a direct call of _apply_data_recovery(data)
ApplyDataRecoveryCall ==
    /\ CallerReady
    /\ \E frame \in FrameSamples, pandas_major \in PandasMajors :
          call' = [ method |-> "_apply_data_recovery",
                    input |-> frame,
                    pandas |-> pandas_major,
                    result |-> ApplyDataRecoveryFn(frame, pandas_major),
                    again |-> FALSE ]
    /\ UNCHANGED << orchVars, streamVars, engineVars >>

\* _apply_data_recovery called on the frame the previous call returned
ApplyDataRecoveryAgain ==
    /\ call.method = "_apply_data_recovery"
    /\ ~call.again
    /\ call.result.raised = "none"
    /\ call' = [ method |-> "_apply_data_recovery",
                 input |-> call.result.frame,
                 pandas |-> call.pandas,
                 result |-> ApplyDataRecoveryFn(call.result.frame, call.pandas),
                 again |-> TRUE ]
    /\ UNCHANGED << orchVars, streamVars, engineVars >>

(***************************************************************************)
(* Direct calls of the engine's methods and of _generate_ai_recommendations *)
(***************************************************************************)
MaxPredictRows == 2
MaxAnomalies == 7

\* draws of np.random.random(), in tenths
UnitSamples == {2, 7}

\* draws of np.random.uniform(2.5, 5.0), in tenths: the range is [2.5, 5.0)
ScoreSamples == {ScoreLow, 30, ScoreHigh - 1}

\* train_model(data, config): the four awaited helpers only sleep, log and
\* draw metrics; self.model_cache is never assigned
TrainModelCall ==
    /\ CallerReady
    /\ \E n \in 0 .. MaxRows :
          call' = [ method |-> "train_model", input |-> n,
                    result |-> [raised |-> "none", value |-> "training_metrics"] ]
    /\ trainCompleted' = TRUE
    /\ UNCHANGED << orchVars, streamVars, model_cache, anomaly_detection_threshold >>

\* what predict_batch(features) can return for features of n rows:
\* predictions = np.random.random(len(features)),
\* confidence_intervals = np.random.random((len(features), 2))
PredictBatchResults(n) ==
    { [ raised |-> "none", predictions |-> ps, confidence_intervals |-> cis ] :
        ps \in SeqsOfLen(UnitSamples, PredictionRows(n)),
        cis \in SeqsOfLen(UnitSamples \X UnitSamples, ConfidenceRows(n)) }

\* predict_batch(features): self.model_cache is not read
PredictBatchCall ==
    /\ CallerReady
    /\ \E n \in 0 .. MaxPredictRows :
          \E r \in PredictBatchResults(n) :
             call' = [ method |-> "predict_batch", input |-> n,
                       trained |-> trainCompleted, result |-> r ]
    /\ UNCHANGED << orchVars, streamVars, engineVars >>

\* the elements of a set of numbers in increasing order
RECURSIVE Ascending(_)
Ascending(S) ==
    IF S = {} THEN <<>>
    ELSE LET least == CHOOSE x \in S : \A y \in S : x <= y
         IN  << least >> \o Ascending(S \ {least})

\* what detect_anomalies(data) can return for data of n rows: the loop visits
\* i = 0 .. min(n, 10) - 1 in order and, with probability 0.05 each, appends a
\* record with 'index': i and 'anomaly_score': np.random.uniform(2.5, 5.0);
\* self.config.anomaly_detection_threshold is not read
DetectAnomaliesResultsWith(n, scores) ==
    UNION { { [k \in 1 .. Cardinality(found) |->
                 [index |-> Ascending(found)[k], anomaly_score |-> score[Ascending(found)[k]]]] :
              score \in [found -> scores] } :
            found \in SUBSET (0 .. ScannedRows(n) - 1) }

DetectAnomaliesResults(n) == DetectAnomaliesResultsWith(n, ScoreSamples)

\* detect_anomalies(data)
DetectAnomaliesCall ==
    /\ CallerReady
    /\ \E n \in 0 .. MaxRows :
          \E r \in DetectAnomaliesResults(n) :
             call' = [ method |-> "detect_anomalies", input |-> n,
                       result |-> [raised |-> "none", anomalies |-> r] ]
    /\ UNCHANGED << orchVars, streamVars, engineVars >>

\* a dataset with more rows than the scan visits
WideRows == AnomalyScanLimit + 1

\* detect_anomalies(data) on a dataset of WideRows rows; which rows are found
\* does not depend on the scores, so one score stands for all
DetectAnomaliesWideCall ==
    /\ CallerReady
    /\ \E r \in DetectAnomaliesResultsWith(WideRows, {ScoreLow}) :
          call' = [ method |-> "detect_anomalies", input |-> WideRows,
                    result |-> [raised |-> "none", anomalies |-> r] ]
    /\ UNCHANGED << orchVars, streamVars, engineVars >>

\* _generate_ai_recommendations(anomalies), for a list of count anomalies
GenerateAIRecommendationsCall ==
    /\ CallerReady
    /\ \E count \in 0 .. MaxAnomalies :
          call' = [ method |-> "_generate_ai_recommendations", input |-> count,
                    result |-> [raised |-> "none",
                                recommendations |-> GenerateAIRecommendations(count)] ]
    /\ UNCHANGED << orchVars, streamVars, engineVars >>

(***************************************************************************)
(* Specifications.                                                         *)
(***************************************************************************)
InitializeSystemSteps == InitializeSystem \/ InitStep \/ InitExcept

AnalysisBody ==
    GenerateEnterpriseDataset \/ TrainModel \/ PredictBatch \/ DetectAnomalies
        \/ AssembleReport

StreamSteps ==
    ProcessRealtimeStream \/ ReceiveDataBatch \/ ValidateDataIntegrity
        \/ ApplyDataRecovery \/ EncryptSensitiveData \/ ApplyBusinessRules
        \/ CountBatch \/ HandleProcessingError

\* every step of the program
NextAll == InitializeSystemSteps \/ RunComprehensiveAnalysis \/ AnalysisBody \/ StreamSteps

\* the steps that can be taken from a freshly constructed orchestrator: the
\* body of run_comprehensive_analysis needs system_status = "OPERATIONAL",
\* which NeverOperational shows is not reached from Init
Next == InitializeSystemSteps \/ RunComprehensiveAnalysis \/ StreamSteps

\* the program from construction
Spec == Init /\ [][Next]_vars

\* the same with every step available
SpecAll == Init /\ [][NextAll]_vars

\* each method from every value of system_status
SpecAnyStatus == InitAnyStatus /\ [][NextAll]_vars

\* the objects as constructed, with a configured anomaly threshold
InitMethods ==
    /\ system_status = "INITIALIZING"
    /\ statusAtCall = "INITIALIZING"
    /\ OrchIdle
    /\ StreamInit
    /\ batch_size = DefaultBatchSize
    /\ \E t \in ThresholdSamples : EngineInit(t)
    /\ call = NoCall

\* direct calls of single methods
MethodCalls ==
    ApplyDataRecoveryCall \/ ApplyDataRecoveryAgain \/ TrainModelCall
        \/ PredictBatchCall \/ DetectAnomaliesCall \/ GenerateAIRecommendationsCall
        \/ CallReturns

\* each method called on its own with inputs of bounded size
SpecMethods == InitMethods /\ [][MethodCalls]_vars

\* batch sizes a DataPipeline is constructed with: the default and two
\* smaller ones, one inside and one below the range the receive step draws from
BatchSizeSamples == {DefaultBatchSize, 500, 50}

\* EnterpriseDataProcessor(pipeline_config) for a configured batch_size
InitStream ==
    /\ system_status = "INITIALIZING"
    /\ statusAtCall = "INITIALIZING"
    /\ OrchIdle
    /\ StreamInit
    /\ batch_size \in BatchSizeSamples
    /\ EngineInit(DefaultThreshold)
    /\ call = NoCall

\* process_realtime_stream on a processor of any configured batch_size
SpecStream == InitStream /\ [][StreamSteps]_vars

\* run_comprehensive_analysis from every value of system_status, next to
\* direct calls of predict_batch
AnalysisAndPredictCalls ==
    InitializeSystemSteps \/ RunComprehensiveAnalysis \/ AnalysisBody
        \/ PredictBatchCall \/ CallReturns

SpecAnalysis == InitAnyStatus /\ [][AnalysisAndPredictCalls]_vars

\* run_comprehensive_analysis from every value of system_status, next to
\* direct calls of detect_anomalies
AnalysisAndDetectCalls ==
    RunComprehensiveAnalysis \/ AnalysisBody \/ DetectAnomaliesCall
        \/ DetectAnomaliesWideCall \/ CallReturns

SpecDetect == InitAnyStatus /\ [][AnalysisAndDetectCalls]_vars

\* a started coroutine is run to completion by the event loop, and the caller
\* keeps retrying initialize_system
SpecFair ==
    /\ Spec
    /\ WF_vars(InitializeSystem)
    /\ WF_vars(InitStep)
    /\ WF_vars(InitExcept)

TypeOK ==
    /\ system_status \in StatusValues
    /\ opc \in {"idle", "init_step", "init_except", "generate", "train",
                "predict", "detect", "report"}
    /\ initIdx \in 1 .. Len(InitSteps)
    /\ spc \in {"idle", "receive", "validate", "recover", "encrypt", "rules",
                "count", "except", "closed", "propagated"}
    /\ batch_counter \in Nat
    /\ processed_samples \in Nat
    /\ receives \in 0 .. MaxReceives
    /\ sample_data \in Nat
    /\ predictions \in Nat
    /\ anomalies \in 0 .. AnomalyScanLimit
    /\ batch_data \in Nat
    /\ encrypted_batch \in Nat
    /\ processed_batch \in Nat
    /\ batch_size \in Nat
    /\ Len(batchTrace) <= 4
    /\ model_cache = {}
    /\ trainCompleted \in BOOLEAN
    /\ anomaly_detection_threshold \in Nat

\* from construction the status never becomes OPERATIONAL
NeverOperational == system_status # "OPERATIONAL"

(***************************************************************************)
(* Properties.                                                             *)
(***************************************************************************)
RunCalled == lastOp = "run_comprehensive_analysis"
InitializeCalled == lastOp = "initialize_system"
InitializeReturned == InitializeCalled /\ opc = "idle"

\* C1: whenever run_comprehensive_analysis is called while system_status is
\* not OPERATIONAL, the call raises the not-operational error (RuntimeError),
\* returns no report, awaits none of train_model / predict_batch /
\* detect_anomalies, and leaves system_status as it was.
C1_NotOperationalRejected ==
    (RunCalled /\ statusAtCall # "OPERATIONAL") =>
        /\ opc = "idle"
        /\ lastReturn = "RuntimeError"
        /\ report = NoReport
        /\ engineLog = <<>>
        /\ sample_data = 0
        /\ system_status = statusAtCall

C1_Witness ==
    /\ RunCalled
    /\ statusAtCall = "FAILED"
    /\ lastReturn = "RuntimeError"

\* the steps awaited are the first ones of InitSteps, in order, and only the
\* last of them may have failed
StepsRunInOrder ==
    /\ Len(stepsRun) <= Len(InitSteps)
    /\ \A i \in 1 .. Len(stepsRun) :
          /\ stepsRun[i][1] = InitSteps[i]
          /\ (i < Len(stepsRun) => stepsRun[i][2] = "return")

SomeStepFailed == \E i \in 1 .. Len(stepsRun) : stepsRun[i][2] # "return"

\* C2: every initialize_system call returns True or False (it never lets the
\* error out); it returns True, with system_status OPERATIONAL, only if every
\* step was awaited and none failed; if a step fails, no later step is
\* awaited, system_status becomes FAILED and the call returns False.
C2_InitializeOutcome ==
    /\ InitializeCalled => StepsRunInOrder
    /\ InitializeReturned =>
          /\ lastReturn \in {"True", "False"}
          /\ (lastReturn = "True" \/ system_status = "OPERATIONAL") =>
                /\ lastReturn = "True"
                /\ system_status = "OPERATIONAL"
                /\ Len(stepsRun) = Len(InitSteps)
                /\ ~SomeStepFailed
          /\ SomeStepFailed =>
                /\ lastReturn = "False"
                /\ system_status = "FAILED"

C2_Witness ==
    /\ InitializeReturned
    /\ stepsRun = << << "initialize_quantum_circuits", "AttributeError" >> >>
    /\ lastReturn = "False"
    /\ system_status = "FAILED"

C4_FailedIsLeft == [](system_status = "FAILED" => <>(system_status = "OPERATIONAL"))

\* the lifecycle as the specification draws it; no method called yet means
\* freshly constructed
SpecStatusValues == {"UNINITIALIZED", "INITIALIZING", "OPERATIONAL", "FAILED"}

EngineOrder == << "train_model", "predict_batch", "detect_anomalies" >>

\* C6: the engine operations are awaited in the order train_model,
\* predict_batch, detect_anomalies, each only after the one before it has
\* returned, and a report is returned only after all three have returned,
\* each awaited exactly once.
C6_EngineOrder ==
    RunCalled =>
        /\ Len(engineLog) <= Len(EngineOrder)
        /\ \A i \in 1 .. Len(engineLog) :
              /\ engineLog[i][1] = EngineOrder[i]
              /\ (i < Len(engineLog) => engineLog[i][2] = "returned")
        /\ (lastReturn = "report" \/ report # NoReport \/ opc = "report") =>
              /\ Len(engineLog) = Len(EngineOrder)
              /\ \A i \in 1 .. Len(engineLog) : engineLog[i][2] = "returned"

C6_Witness ==
    /\ RunCalled
    /\ lastReturn = "report"
    /\ report # NoReport
    /\ Len(engineLog) = 3

EngineRaised ==
    /\ engineLog # <<>>
    /\ engineLog[Len(engineLog)][2] = "raised"

\* C7: when train_model, predict_batch or detect_anomalies raises during
\* run_comprehensive_analysis, the call ends with that exception, no report
\* is returned, and system_status is still OPERATIONAL, so that the guard of
\* a later run_comprehensive_analysis admits it.
C7_EngineFailurePropagates ==
    (RunCalled /\ EngineRaised) =>
        /\ opc = "idle"
        /\ lastReturn \in ExceptionSubclasses
        /\ report = NoReport
        /\ system_status = "OPERATIONAL"
        /\ AnalysisAdmitted(system_status)

C7_Witness ==
    /\ RunCalled
    /\ engineLog = << << "train_model", "returned" >>, << "predict_batch", "raised" >> >>
    /\ lastReturn = "MemoryError"
    /\ system_status = "OPERATIONAL"

\* exceptions raised in the try block that the except clause has not yet taken
InFlight == IF spc = "except" THEN 1 ELSE 0

\* C8: no exception raised while a batch is received or processed leaves
\* process_realtime_stream: each is caught by the except clause of the loop,
\* _handle_processing_error is called once for it, and the loop goes on with
\* the next _receive_data_batch.
C8_ErrorsStayInLoop ==
    /\ [](/\ spc # "propagated"
          /\ handlerCalls + InFlight = raisedCount
          /\ (spc = "except" => pendingExc # "none"))
    /\ [][spc = "except" /\ spc' # "except" =>
            /\ spc' = "receive"
            /\ handlerCalls' = handlerCalls + 1
            /\ UNCHANGED << batch_counter, processed_samples >>]_vars

C8_Witness ==
    /\ handlerCalls = 2
    /\ raisedCount = 2
    /\ spc = "validate"

\* C9: once _receive_data_batch has returned None the loop is closed: the
\* call has returned normally, and from then on nothing is received,
\* validated, recovered, encrypted, transformed or counted.
C9_ClosedIsTerminal ==
    /\ [](sentinelSeen <=> spc = "closed")
    /\ [][spc = "closed" => UNCHANGED streamVars]_vars

C9_Witness ==
    /\ spc = "closed"
    /\ sentinelSeen
    /\ batch_counter = 2

\* the batches whose counter updates have been made: all that completed
\* _process_batch_enterprise, but for the one whose update is the next step
Counted == IF spc = "count" THEN SubSeq(completed, 1, Len(completed) - 1) ELSE completed

\* C10: batch_counter is the number of batches that completed the per-batch
\* processing and processed_samples is the sum of their record counts; the
\* sentinel and the batches whose processing raised are counted in neither.
C10_CountersMatchCompleted ==
    /\ batch_counter = Len(Counted)
    /\ processed_samples = SumSeq(Counted)
    /\ (spc = "closed" => Counted = completed)
    /\ Len(completed) + raisedCount <= receives

C10_Witness ==
    /\ spc = "closed"
    /\ completed = << BatchRowsLow, BatchRowsLow >>
    /\ raisedCount = 1
    /\ batch_counter = 2
    /\ processed_samples = 2 * BatchRowsLow

(***************************************************************************)
(* Recovery of a batch (direct calls of _apply_data_recovery).             *)
(***************************************************************************)
IsRecoveryCall == call.method = "_apply_data_recovery"

\* some numeric column has rows and not one valid value
HasColumnWithoutValid(frame) ==
    \E c \in 1 .. Len(frame.cols) :
        Len(frame.cols[c]) > 0 /\ ValidIndexes(frame.cols[c]) = {}

\* every numeric column has at least one valid value
EveryColumnHasValid(frame) ==
    \A c \in 1 .. Len(frame.cols) : ValidIndexes(frame.cols[c]) # {}

NoMissing(frame) ==
    \A c \in 1 .. Len(frame.cols) : ValidIndexes(frame.cols[c]) = 1 .. Len(frame.cols[c])

\* C11: recovering a batch one of whose numeric columns has no valid value
\* raises UnrecoverableBatchError (which the stream's handler then catches, so
\* that the batch is dropped and not counted).
C11_UnrecoverableRaises ==
    (IsRecoveryCall /\ HasColumnWithoutValid(call.input))
        => call.result.raised = "UnrecoverableBatchError"

\* what the code does with such a batch when no text column is in the way:
\* it returns it, the column still without a valid value
RecoveryReturnsEmptyColumn ==
    (IsRecoveryCall /\ HasColumnWithoutValid(call.input) /\ ~call.input.text)
        => /\ call.result.raised = "none"
           /\ HasColumnWithoutValid(call.result.frame)

\* out is col with each missing cell replaced by the mean of col's valid
\* cells (r = total/k stated as r.num * total.den * k = total.num * r.den),
\* each valid cell as it was, the rows in the same number and order
FilledWithMean(col, out) ==
    LET idx == ValidIndexes(col)
        total == SumCells(col, idx)
        k == Cardinality(idx)
    IN  /\ Len(out) = Len(col)
        /\ \A i \in 1 .. Len(col) :
              IF col[i].nan
              THEN /\ ~out[i].nan
                   /\ out[i].num * total.den * k = total.num * out[i].den
              ELSE out[i] = col[i]

ColumnsFilledWithMean(frame, out) ==
    /\ Len(out.cols) = Len(frame.cols)
    /\ \A c \in 1 .. Len(frame.cols) :
          ValidIndexes(frame.cols[c]) # {} => FilledWithMean(frame.cols[c], out.cols[c])

\* C12: for every batch whose numeric columns each have a valid value,
\* recovery returns a batch in which every missing value is replaced by the
\* mean of its column's valid values, every valid value is as it was, and
\* the number and order of the records are unchanged.
C12_RecoveryFillsMean ==
    (IsRecoveryCall /\ EveryColumnHasValid(call.input))
        => /\ call.result.raised = "none"
           /\ ColumnsFilledWithMean(call.input, call.result.frame)

\* whenever recovery does return, the columns that have a valid value are
\* filled as C12 says
RecoveryFillsMeanWhenReturned ==
    (IsRecoveryCall /\ call.result.raised = "none")
        => ColumnsFilledWithMean(call.input, call.result.frame)

\* C13: recovery applied to a batch with no missing value returns the batch
\* unchanged, and recovery applied to a batch that recovery returned returns
\* that batch unchanged.
C13_RecoveryIdempotent ==
    IsRecoveryCall
        => /\ NoMissing(call.input) => call.result = Returned(call.input)
           /\ call.again => call.result = Returned(call.input)

\* whenever recovery does return, it is idempotent as C13 says
RecoveryIdempotentWhenReturned ==
    (IsRecoveryCall /\ call.result.raised = "none")
        => /\ NoMissing(call.input) => call.result.frame = call.input
           /\ call.again => call.result.frame = call.input

(***************************************************************************)
(* The engine's results.                                                   *)
(***************************************************************************)
IsDetectCall == call.method = "detect_anomalies"
IsPredictCall == call.method = "predict_batch"

\* C14: every record detect_anomalies returns has an anomaly_score strictly
\* greater than the configured anomaly_detection_threshold.
C14_ScoresAboveThreshold ==
    IsDetectCall
        => \A k \in 1 .. Len(call.result.anomalies) :
              call.result.anomalies[k].anomaly_score > anomaly_detection_threshold

\* what the returned records do satisfy: scores in [2.5, 5.0), one record at
\* most per scanned row, in row order
DetectedWithinScan ==
    IsDetectCall
        => /\ Len(call.result.anomalies) \in DetectedCounts(call.input)
           /\ \A k \in 1 .. Len(call.result.anomalies) :
                 /\ call.result.anomalies[k].anomaly_score >= ScoreLow
                 /\ call.result.anomalies[k].anomaly_score < ScoreHigh
                 /\ call.result.anomalies[k].index < Min(call.input, AnomalyScanLimit)
                 /\ k > 1 => call.result.anomalies[k - 1].index
                                 < call.result.anomalies[k].index

\* C15: predict_batch on an engine on which train_model has never completed
\* fails with ModelNotTrainedError and returns no predictions.
C15_UntrainedPredictFails ==
    (IsPredictCall /\ ~call.trained)
        => call.result.raised = "ModelNotTrainedError"

\* no method of the engine ever puts a model into model_cache
ModelCacheStaysEmpty == model_cache = {}

\* C16: in every row of a predict_batch result the confidence interval has
\* confidence_low <= confidence_high.
C16_ConfidenceOrdered ==
    IsPredictCall
        => \A i \in 1 .. Len(call.result.confidence_intervals) :
              call.result.confidence_intervals[i][1]
                 <= call.result.confidence_intervals[i][2]

\* C17: predict_batch on n rows returns n predictions and n confidence
\* intervals, and every report run_comprehensive_analysis returns has as
\* many predictions as samples.
C17_PredictionsMatchRows ==
    /\ IsPredictCall
          => /\ Len(call.result.predictions) = call.input
             /\ Len(call.result.confidence_intervals) = call.input
    /\ opc \in {"detect", "report"} => predictions = sample_data
    /\ report.kind = "analysis_report"
          => report.predictions_generated = report.samples_processed

C17_Witness ==
    /\ report.kind = "analysis_report"
    /\ report.samples_processed = DatasetRowsHigh - 1
    /\ report.predictions_generated = DatasetRowsHigh - 1
    /\ IsPredictCall
    /\ call.input = MaxPredictRows
    /\ Len(call.result.predictions) = MaxPredictRows

IsRecommendationsCall == call.method = "_generate_ai_recommendations"

\* C18: the recommendations for an anomaly count are the four baseline
\* strings in their order, followed by the urgent one exactly when the count
\* is strictly greater than 5.
C18_UrgentAboveFive ==
    IsRecommendationsCall
        => LET recs == call.result.recommendations
           IN  /\ SubSeq(recs, 1, 4) = BaselineRecommendations
               /\ Len(BaselineRecommendations) = 4
               /\ IF call.input > 5
                  THEN Len(recs) = 5 /\ recs[5] = UrgentRecommendation
                  ELSE Len(recs) = 4

C18_Witness ==
    /\ IsRecommendationsCall
    /\ call.input = 6
    /\ Len(call.result.recommendations) = 5
    /\ call.result.recommendations[5] = UrgentRecommendation

(***************************************************************************)
(* The batches of the stream.                                              *)
(***************************************************************************)
\* a batch is in the hands of _process_batch_enterprise or about to be counted
BatchInProcessing == spc \in {"validate", "recover", "encrypt", "rules", "count"}

\* C19: for every configured batch_size, every batch the receive step hands
\* to the per-batch processing has at most batch_size records.
C19_BatchWithinBatchSize == BatchInProcessing => batch_data <= batch_size

\* what the receive step does guarantee, whatever batch_size is
BatchRowsInDrawnRange ==
    BatchInProcessing => (batch_data >= BatchRowsLow /\ batch_data < BatchRowsHigh)

StepNames(trace) == [i \in 1 .. Len(trace) |-> trace[i].step]

IsPrefix(p, q) == Len(p) <= Len(q) /\ SubSeq(q, 1, Len(p)) = p

PassedOrder ==
    << "_validate_data_integrity", "_encrypt_sensitive_data", "_apply_business_rules" >>

RecoveredOrder ==
    << "_validate_data_integrity", "_apply_data_recovery", "_encrypt_sensitive_data",
       "_apply_business_rules" >>

\* the steps a batch goes through, given what its validation returned
OrderFor(trace) ==
    IF trace # <<>> /\ trace[1].result = "False" THEN RecoveredOrder ELSE PassedOrder

\* C20: the steps taken on a batch are, in this order, validation, recovery
\* exactly when validation returned false, encryption and business rules,
\* each once; business rules are given what encryption returned; and a batch
\* that went through them all is counted next.
C20_StepsInOrder ==
    /\ [](/\ IsPrefix(StepNames(batchTrace), OrderFor(batchTrace))
          /\ spc = "validate" => (batchTrace = <<>> /\ batch_data > 0)
          /\ spc = "count" <=> (batchTrace # <<>> /\ StepNames(batchTrace) = OrderFor(batchTrace))
          /\ \A i \in 2 .. Len(batchTrace) :
                batchTrace[i].step = "_apply_business_rules"
                   => /\ batchTrace[i - 1].step = "_encrypt_sensitive_data"
                      /\ batchTrace[i].rows_in = batchTrace[i - 1].rows_out
                      /\ batchTrace[i].rows_out = batchTrace[1].rows_in)
    /\ [][(spc = "count" /\ spc' # spc)
             => /\ batch_counter' = batch_counter + 1
                /\ processed_samples' = processed_samples + batchTrace[1].rows_in
                /\ spc' = "receive"]_vars

C20_Witness ==
    /\ spc = "count"
    /\ StepNames(batchTrace) = RecoveredOrder
    /\ batchTrace[1].result = "False"
    /\ batchTrace[4].rows_in = BatchRowsHigh - 1
    /\ batch_counter = 1

(***************************************************************************)
(* The exits of the stream loop.                                           *)
(***************************************************************************)
\* process_realtime_stream is over: it returned or an exception left it
StreamEnded == spc \in {"closed", "propagated"}

\* C21: process_realtime_stream ends only by returning after the receive
\* step returned the sentinel; a handled error, however many came before it,
\* sends the loop back to the receive step, so without the sentinel the loop
\* does not end.
C21_OnlySentinelEndsLoop ==
    /\ [](~sentinelSeen => ~StreamEnded)
    /\ [](spc # "propagated")
    /\ [][(~StreamEnded /\ StreamEnded')
             => (spc = "receive" /\ sentinelSeen' /\ spc' = "closed")]_vars
    /\ [][(spc = "except" /\ spc' # spc)
             => (spc' = "receive" /\ handlerCalls' = handlerCalls + 1)]_vars

\* every receive raised, one after the other, and the loop is still running
C21_Witness ==
    /\ raisedCount = MaxReceives
    /\ handlerCalls = MaxReceives
    /\ receives = MaxReceives
    /\ completed = <<>>
    /\ spc = "receive"
    /\ ~sentinelSeen

(***************************************************************************)
(* Reaching OPERATIONAL.                                                   *)
(***************************************************************************)
\* initialize_system has returned True and left the system OPERATIONAL
InitializeSucceeded ==
    /\ InitializeReturned
    /\ lastReturn = "True"
    /\ system_status = "OPERATIONAL"
    /\ Len(stepsRun) = Len(InitSteps)
    /\ \A i \in 1 .. Len(stepsRun) : stepsRun[i][2] = "return"

\* C22: from a freshly constructed orchestrator, initialize_system can run
\* all of its steps to completion, return True and leave the system
\* OPERATIONAL, so that a following run_comprehensive_analysis is accepted:
\* a caller who keeps calling initialize_system gets there.
C22_OperationalReached == <>InitializeSucceeded

\* what holds instead, of every behaviour from construction: no call of
\* initialize_system returns True, the first step raises in each, and every
\* run_comprehensive_analysis is turned away
InitializeNeverSucceeds ==
    /\ NeverOperational
    /\ InitializeCalled => lastReturn # "True"
    /\ InitializeReturned
          => /\ system_status = "FAILED"
             /\ stepsRun = << << InitSteps[1], "AttributeError" >> >>
    /\ (RunCalled /\ opc = "idle") => lastReturn = "RuntimeError"

(***************************************************************************)
(* The rows detect_anomalies looks at.                                     *)
(***************************************************************************)
\* C23: detect_anomalies returns at most 10 records, each with an index in
\* 0..9 and below the row count of the data, the indices strictly increasing,
\* and no record for empty data; so the anomaly count of every report is at
\* most 10.
C23_OnlyFirstTenRows ==
    /\ IsDetectCall
          => LET found == call.result.anomalies
             IN  /\ Len(found) <= 10
                 /\ \A k \in 1 .. Len(found) :
                       /\ found[k].index \in 0 .. 9
                       /\ found[k].index < call.input
                       /\ k > 1 => found[k - 1].index < found[k].index
                 /\ call.input = 0 => found = <<>>
    /\ anomalies <= 10
    /\ report.kind = "analysis_report" => report.anomalies_detected <= 10

\* all ten scanned rows of an eleven-row dataset were found, and a report
\* counted ten anomalies
C23_Witness ==
    /\ IsDetectCall
    /\ call.input = 11
    /\ Len(call.result.anomalies) = 10
    /\ call.result.anomalies[10].index = 9
    /\ report.kind = "analysis_report"
    /\ report.anomalies_detected = 10
    /\ report.samples_processed = DatasetRowsLow

====
